---- MODULE Spec2Model ----
(***************************************************************************)
(* Database bootstrap of go-boilerplate: the tracer aggregator            *)
(* (multiTracer), the pool builder (New / Database.Close), the migration  *)
(* runner (Migrate) and the connection strings both of them build.        *)
(***************************************************************************)
EXTENDS Integers, Sequences, FiniteSets, TLC

\* ---- bounds ----
MaxObservers == 3
MaxScripts == 3
MaxCalls == 2
MaxPasswordLen == 2

\* ---- program constants ----
DatabasePingTimeout == 10

VARIABLES
    \* multiTracer
    tracers,      \* mt.tracers: the registered observers, in registration order
    tpc,          \* where the driver's query is
    ti,           \* index of the range loop
    tctx,         \* the ctx variable of TraceQueryStart / the ctx handed to TraceQueryEnd
    startCalls,   \* observers invoked by TraceQueryStart: [obs, got, ret]
    endCalls,     \* observers invoked by TraceQueryEnd: [obs, got]
    tret,         \* what TraceQueryStart returned
    \* New / Close
    nin,          \* New's inputs: loggerService and cfg.Primary.Env
    npc,          \* position inside New
    ntracer,      \* pgxPoolConfig.ConnConfig.Tracer
    pool,         \* the pgxpool.Pool that New created
    pingClock,    \* seconds elapsed of the ping's context
    pingErr,      \* what pool.Ping returned
    nret,         \* what New returned: [db, err]
    \* Migrate
    nScripts,     \* len(m.Migrations): the embedded catalogue holds scripts 1..nScripts
    tableExists,  \* whether the schema_version table exists
    schemaVersion,\* the version the schema_version table holds
    mpc,          \* position inside Migrate
    mfrom,        \* from
    mcur,         \* the migrator's current version while it migrates
    applied,      \* the scripts this call has applied and committed, in order
    failed,       \* the script that failed in this call, 0 when none did
    mres,         \* the error Migrate returned: [kind, version]
    mreport,      \* which of the two messages Migrate logged
    calls,        \* calls of Migrate so far
    startVersion, \* the version the table held when this call began
    prev,         \* how the previous call ended: [ok, version]
    \* the connection strings
    desc,         \* cfg.Database: [user, password, host, port, name, sslmode]
    dpc,          \* "config", "built" or "parsed"
    builder,      \* which function built the string: "New" or "Migrate"
    dsn,          \* the connection string, a sequence of characters
    parsed        \* what the driver's parser made of it

tvars == <<tracers, tpc, ti, tctx, startCalls, endCalls, tret>>
nvars == <<nin, npc, ntracer, pool, pingClock, pingErr, nret>>
mvars == <<nScripts, tableExists, schemaVersion, mpc, mfrom, mcur, applied,
           failed, mres, mreport, calls, startVersion, prev>>
dvars == <<desc, dpc, builder, dsn, parsed>>
vars == <<tvars, nvars, mvars, dvars>>

\* ------------------------------------------------------------------------
\* Connection strings: strings are sequences of one-character strings
\* ------------------------------------------------------------------------

Letters == {"a", "b", "d", "e", "h", "i", "l", "m", "n", "o", "p", "q", "r",
            "s", "t", "u", "A", "B", "C", "D", "E", "F"}

Digits == <<"0", "1", "2", "3", "4", "5", "6", "7", "8", "9">>

DigitSet == {Digits[i] : i \in 1..10}

HexSet == DigitSet \cup {"A", "B", "C", "D", "E", "F"}

\* The first index of character c in s, 0 when there is none.
Index(s, c) ==
    IF \E i \in 1..Len(s) : s[i] = c
    THEN CHOOSE i \in 1..Len(s) : s[i] = c /\ \A j \in 1..(i - 1) : s[j] # c
    ELSE 0

\* The last index of character c in s, 0 when there is none.
LastIndex(s, c) ==
    IF \E i \in 1..Len(s) : s[i] = c
    THEN CHOOSE i \in 1..Len(s) : s[i] = c /\ \A j \in (i + 1)..Len(s) : s[j] # c
    ELSE 0

Before(s, i) == SubSeq(s, 1, i - 1)

After(s, i) == SubSeq(s, i + 1, Len(s))

\* strings.Cut at the first c: what is before it (all of s when there is none).
CutBefore(s, c) == IF Index(s, c) = 0 THEN s ELSE Before(s, Index(s, c))

\* strings.Cut at the first c: what is after it (empty when there is none).
CutAfter(s, c) == IF Index(s, c) = 0 THEN <<>> ELSE After(s, Index(s, c))

HasPrefix(s, pre) == Len(s) >= Len(pre) /\ SubSeq(s, 1, Len(pre)) = pre

\* strconv.Itoa for a port number.
RECURSIVE Itoa(_)
Itoa(n) == IF n < 10 THEN <<Digits[n + 1]>>
           ELSE Itoa(n \div 10) \o <<Digits[(n % 10) + 1]>>

DigitValue(c) == CHOOSE d \in 0..9 : Digits[d + 1] = c

\* The number a string of decimal digits denotes.
RECURSIVE Atoi(_)
Atoi(s) == IF s = <<>> THEN 0
           ELSE 10 * Atoi(Before(s, Len(s))) + DigitValue(s[Len(s)])

\* net.JoinHostPort: a host holding a colon or a percent sign is bracketed.
JoinHostPort(host, port) ==
    IF Index(host, ":") # 0 \/ Index(host, "%") # 0
    THEN <<"[">> \o host \o <<"]", ":">> \o port
    ELSE host \o <<":">> \o port

\* The two hexadecimal digits of a character's byte.
HexOf(c) ==
    CASE c = " " -> <<"2", "0">>
      [] c = "#" -> <<"2", "3">>
      [] c = "%" -> <<"2", "5">>
      [] c = "+" -> <<"2", "B">>
      [] c = "/" -> <<"2", "F">>
      [] c = ":" -> <<"3", "A">>
      [] c = "=" -> <<"3", "D">>
      [] c = "?" -> <<"3", "F">>
      [] c = "@" -> <<"4", "0">>
      [] c = "[" -> <<"5", "B">>
      [] c = "]" -> <<"5", "D">>
      [] OTHER   -> <<"6", "1">>

Escapable == {" ", "#", "%", "+", "/", ":", "=", "?", "@", "[", "]"}

\* The character of a byte given by two hexadecimal digits ("a" stands for
\* every byte that is none of the punctuation above).
FromHex(h) == IF \E c \in Escapable : HexOf(c) = h
              THEN CHOOSE c \in Escapable : HexOf(c) = h
              ELSE "a"

\* The characters url.QueryEscape leaves as they are.
Unreserved == Letters \cup DigitSet \cup {"-", "_", ".", "~"}

\* url.QueryEscape: a space becomes "+", every other character that is not
\* unreserved becomes "%XX".
RECURSIVE QueryEscape(_)
QueryEscape(s) ==
    IF s = <<>> THEN <<>>
    ELSE (IF s[1] \in Unreserved THEN <<s[1]>>
          ELSE IF s[1] = " " THEN <<"+">>
          ELSE <<"%">> \o HexOf(s[1])) \o QueryEscape(Tail(s))

\* Whether every "%" of s is followed by two hexadecimal digits.
EscapesValid(s) ==
    \A i \in 1..Len(s) :
        s[i] = "%" => (i + 2 <= Len(s) /\ s[i + 1] \in HexSet /\ s[i + 2] \in HexSet)

\* The unescaping of net/url for the user, the password and the path: "%XX"
\* becomes its byte, a "+" stays a "+".
RECURSIVE Unescape(_)
Unescape(s) ==
    IF s = <<>> THEN <<>>
    ELSE IF s[1] = "%" /\ Len(s) >= 3
         THEN <<FromHex(SubSeq(s, 2, 3))>> \o Unescape(SubSeq(s, 4, Len(s)))
         ELSE <<s[1]>> \o Unescape(Tail(s))

\* The unescaping of a query value: as above, and "+" becomes a space.
QueryUnescape(s) ==
    Unescape([i \in 1..Len(s) |-> IF s[i] = "+" THEN " " ELSE s[i]])

PostgresScheme == <<"p", "o", "s", "t", "g", "r", "e", "s", ":", "/", "/">>

SslModeParam == <<"?", "s", "s", "l", "m", "o", "d", "e", "=">>

SslModeKey == <<"s", "s", "l", "m", "o", "d", "e">>

DbnameLiteral == <<"d", "b", "n", "a", "m", "e">>

\* fmt.Sprintf("postgres://%s:%s@%s/%s?sslmode=%s", user, password, hostPort, name, sslmode)
Sprintf(user, password, hostPort, name, sslmode) ==
    PostgresScheme \o user \o <<":">> \o password \o <<"@">> \o hostPort
        \o <<"/">> \o name \o SslModeParam \o sslmode

\* The connection string New builds: the path of its format is the literal
\* "dbname", and cfg.Database.Name is not among the arguments.
NewDsn(d) ==
    Sprintf(d.user, QueryEscape(d.password),
            JoinHostPort(d.host, Itoa(d.port)), DbnameLiteral, d.sslmode)

\* The connection string Migrate builds.
MigrateDsn(d) ==
    Sprintf(d.user, QueryEscape(d.password),
            JoinHostPort(d.host, Itoa(d.port)), d.name, d.sslmode)

\* The characters net/url accepts in the user information.
UserinfoChars ==
    Letters \cup DigitSet \cup {"-", ".", "_", ":", "~", "!", "$", "&", "'", "(",
                                ")", "*", "+", ",", ";", "=", "%", "@"}

ParseError(e) ==
    [err |-> e, user |-> <<>>, password |-> <<>>, rawPassword |-> <<>>,
     host |-> <<>>, port |-> 0, database |-> <<>>, sslmode |-> <<>>]

\* strings.TrimLeft(path, "/")
RECURSIVE TrimLeftSlash(_)
TrimLeftSlash(s) == IF s # <<>> /\ s[1] = "/" THEN TrimLeftSlash(Tail(s)) ELSE s

\* What the driver reads from a postgres:// connection string: the fragment
\* after "#" and the query after "?" are cut off, the authority runs to the
\* first "/", the user information to the last "@", user and password part
\* at the first ":", host and port at the last ":" (a bracketed host loses
\* its brackets), the database is the path without its leading "/" and the
\* SSL mode is the query's sslmode parameter.
ParseDsnString(raw) ==
    LET noFrag    == CutBefore(raw, "#")
        rest0     == SubSeq(noFrag, Len(PostgresScheme) - 1, Len(noFrag))
        rest      == CutBefore(rest0, "?")
        rawQuery  == CutAfter(rest0, "?")
        auth0     == SubSeq(rest, 3, Len(rest))
        authority == CutBefore(auth0, "/")
        path      == SubSeq(auth0, Len(authority) + 1, Len(auth0))
        at        == LastIndex(authority, "@")
        userinfo  == IF at = 0 THEN <<>> ELSE Before(authority, at)
        hostport  == After(authority, at)
        rawUser   == CutBefore(userinfo, ":")
        rawPass   == CutAfter(userinfo, ":")
        bracketed == hostport # <<>> /\ hostport[1] = "["
        close     == LastIndex(hostport, "]")
        colon     == LastIndex(hostport, ":")
        rawHost   == IF bracketed THEN SubSeq(hostport, 2, close - 1)
                     ELSE IF colon = 0 THEN hostport ELSE Before(hostport, colon)
        rawPort   == IF bracketed
                     THEN (IF close < Len(hostport) THEN After(hostport, close + 1) ELSE <<>>)
                     ELSE IF colon = 0 THEN <<>> ELSE After(hostport, colon)
        param     == CutBefore(rawQuery, "&")
    IN  IF ~HasPrefix(noFrag, PostgresScheme) THEN ParseError("scheme")
        ELSE IF \E i \in 1..Len(userinfo) : userinfo[i] \notin UserinfoChars
             THEN ParseError("invalid userinfo")
        ELSE IF ~EscapesValid(userinfo) \/ ~EscapesValid(path)
             THEN ParseError("invalid URL escape")
        ELSE IF bracketed /\ (close = 0 \/ (close < Len(hostport) /\ hostport[close + 1] # ":"))
             THEN ParseError("invalid host")
        ELSE IF \E i \in 1..Len(rawPort) : rawPort[i] \notin DigitSet
             THEN ParseError("invalid port")
        ELSE [err |-> "nil",
              user |-> Unescape(rawUser),
              password |-> Unescape(rawPass),
              rawPassword |-> rawPass,
              host |-> rawHost,
              port |-> IF rawPort = <<>> THEN 5432 ELSE Atoi(rawPort),
              database |-> TrimLeftSlash(Unescape(path)),
              sslmode |-> IF CutBefore(param, "=") = SslModeKey
                          THEN QueryUnescape(CutAfter(param, "="))
                          ELSE <<>>]

NoParse == ParseError("none")

DsnIdle ==
    /\ dpc = "config" /\ builder = "none" /\ dsn = <<>> /\ parsed = NoParse

\* New formats its connection string.
NewBuildDsn ==
    /\ dpc = "config"
    /\ dsn' = NewDsn(desc)
    /\ builder' = "New"
    /\ dpc' = "built"
    /\ UNCHANGED <<desc, parsed>>

\* Migrate formats its connection string.
MigrateBuildDsn ==
    /\ dpc = "config"
    /\ dsn' = MigrateDsn(desc)
    /\ builder' = "Migrate"
    /\ dpc' = "built"
    /\ UNCHANGED <<desc, parsed>>

\* pgxpool.ParseConfig(dns) in New, pgx.Connect(ctx, dsn) in Migrate: the
\* driver parses the string.
ParseDsn ==
    /\ dpc = "built"
    /\ parsed' = ParseDsnString(dsn)
    /\ dpc' = "parsed"
    /\ UNCHANGED <<desc, builder, dsn>>

\* ------------------------------------------------------------------------
\* multiTracer
\* ------------------------------------------------------------------------

\* An observer: which of the two methods its dynamic type has, and whether
\* its callbacks panic.
Observer == [start : BOOLEAN, end : BOOLEAN, raises : BOOLEAN]

ObserverLists == UNION {[1..n -> Observer] : n \in 0..MaxObservers}

\* The caller's context; an observer returns a context derived from the one
\* it was given (here: possibly extended by a value of its own).
CallerCtx == <<>>

NoCtx == <<-1>>

TracerIdle ==
    /\ tpc = "idle" /\ ti = 0 /\ tctx = CallerCtx
    /\ startCalls = <<>> /\ endCalls = <<>> /\ tret = NoCtx

\* The driver starts a query and calls TraceQueryStart(ctx, conn, data).
BeginQuery ==
    /\ tpc = "idle"
    /\ tpc' = "start"
    /\ ti' = 1
    /\ tctx' = CallerCtx
    /\ startCalls' = <<>>
    /\ endCalls' = <<>>
    /\ tret' = NoCtx
    /\ UNCHANGED tracers

\* The type assertion of TraceQueryStart's loop body.
HasStart(t) == t.start

\* The type assertion of TraceQueryEnd's loop body.
HasEnd(t) == t.end

\* Mutant: every observer is handed the caller's context.
StartArgCaller(c) == CallerCtx

\* ctx = t.TraceQueryStart(ctx, conn, data): the context handed to the observer.
StartArg(c) == c

\* One iteration of TraceQueryStart's range loop.
TraceQueryStartIter ==
    /\ tpc = "start"
    /\ ti <= Len(tracers)
    /\ IF HasStart(tracers[ti])
       THEN IF tracers[ti].raises
            THEN \* the callback panics; nothing recovers, the loop is left
                 /\ startCalls' = Append(startCalls,
                        [obs |-> ti, got |-> StartArg(tctx), ret |-> NoCtx])
                 /\ tpc' = "startPanicked"
                 /\ UNCHANGED <<ti, tctx>>
            ELSE \E r \in {StartArg(tctx), Append(StartArg(tctx), ti)} :
                 /\ startCalls' = Append(startCalls,
                        [obs |-> ti, got |-> StartArg(tctx), ret |-> r])
                 /\ tctx' = r
                 /\ ti' = ti + 1
                 /\ UNCHANGED tpc
       ELSE /\ ti' = ti + 1
            /\ UNCHANGED <<tpc, tctx, startCalls>>
    /\ UNCHANGED <<tracers, endCalls, tret>>

\* return ctx
TraceQueryStartReturn ==
    /\ tpc = "start"
    /\ ti > Len(tracers)
    /\ tret' = tctx
    /\ tpc' = "query"
    /\ UNCHANGED <<tracers, ti, tctx, startCalls, endCalls>>

\* The driver runs the query and calls TraceQueryEnd with the context that
\* TraceQueryStart returned.
QueryExec ==
    /\ tpc = "query"
    /\ tpc' = "end"
    /\ ti' = 1
    /\ tctx' = tret
    /\ UNCHANGED <<tracers, startCalls, endCalls, tret>>

\* One iteration of TraceQueryEnd's range loop.
TraceQueryEndIter ==
    /\ tpc = "end"
    /\ ti <= Len(tracers)
    /\ IF HasEnd(tracers[ti])
       THEN /\ endCalls' = Append(endCalls, [obs |-> ti, got |-> tctx])
            /\ IF tracers[ti].raises
               THEN tpc' = "endPanicked" /\ UNCHANGED ti
               ELSE ti' = ti + 1 /\ UNCHANGED tpc
       ELSE /\ ti' = ti + 1
            /\ UNCHANGED <<tpc, endCalls>>
    /\ UNCHANGED <<tracers, tctx, startCalls, tret>>

\* TraceQueryEnd returns; the query is complete.
TraceQueryEndReturn ==
    /\ tpc = "end"
    /\ ti > Len(tracers)
    /\ tpc' = "done"
    /\ UNCHANGED <<tracers, ti, tctx, startCalls, endCalls, tret>>

\* The connection is free for the next query.
NextQuery ==
    /\ tpc = "done"
    /\ tpc' = "idle"
    /\ ti' = 0
    /\ tctx' = CallerCtx
    /\ startCalls' = <<>>
    /\ endCalls' = <<>>
    /\ tret' = NoCtx
    /\ UNCHANGED tracers

\* ------------------------------------------------------------------------
\* New and Database.Close
\* ------------------------------------------------------------------------

NewInputs == [svc : {"nil", "noapp", "app"}, env : {"local", "production"}]

NoReturn == [db |-> "none", err |-> "none"]

NewIdle ==
    /\ npc = "start" /\ ntracer = <<>> /\ pool = "none"
    /\ pingClock = 0 /\ pingErr = "none" /\ nret = NoReturn

\* pgxpool.ParseConfig(dns), and the error return after it.
ParseConfig ==
    /\ npc = "start"
    /\ \/ /\ npc' = "returned"
          /\ nret' = [db |-> "nil", err |-> "failed to parse pgx pool config"]
       \/ /\ npc' = "parsed"
          /\ UNCHANGED nret
    /\ UNCHANGED <<nin, ntracer, pool, pingClock, pingErr>>

\* The tracer New installs: New Relic when the logger service has an
\* application, and in the local environment the query logger, chained
\* behind New Relic through a multiTracer when both are present.
TracerFor(in) ==
    LET nr == IF in.svc = "app" THEN <<"nrpgx5">> ELSE <<>>
    IN  IF in.env = "local" THEN nr \o <<"tracelog">> ELSE nr

WireTracer ==
    /\ npc = "parsed"
    /\ ntracer' = TracerFor(nin)
    /\ npc' = "wired"
    /\ UNCHANGED <<nin, pool, pingClock, pingErr, nret>>

\* pgxpool.NewWithConfig, and the error return after it.
NewWithConfig ==
    /\ npc = "wired"
    /\ \/ /\ npc' = "returned"
          /\ nret' = [db |-> "nil", err |-> "failed to establish database connection"]
          /\ UNCHANGED pool
       \/ /\ npc' = "pinging"
          /\ pool' = "open"
          /\ UNCHANGED nret
    /\ UNCHANGED <<nin, ntracer, pingClock, pingErr>>

\* A second of the ping's context passes without an answer.
PingWait ==
    /\ npc = "pinging"
    /\ pingClock < DatabasePingTimeout
    /\ pingClock' = pingClock + 1
    /\ UNCHANGED <<nin, npc, ntracer, pool, pingErr, nret>>

\* Mutant: the Database is returned whatever the ping said.
PingReturnDatabase(err) ==
    [db |-> "database", err |-> IF err = "nil" THEN "nil" ELSE "failed to ping database"]

\* What New returns when pool.Ping returned err (nil included).
PingReturn(err) ==
    IF err = "nil"
    THEN [db |-> "database", err |-> "nil"]
    ELSE [db |-> "nil", err |-> "failed to ping database"]

\* pool.Ping(ctx) answers before the deadline, with success or an error.
PingAnswer ==
    /\ npc = "pinging"
    /\ pingClock < DatabasePingTimeout
    /\ \E e \in {"nil", "refused"} : pingErr' = e /\ nret' = PingReturn(e)
    /\ npc' = "returned"
    /\ UNCHANGED <<nin, ntracer, pool, pingClock>>

\* The context's deadline passes: pool.Ping returns context.DeadlineExceeded.
PingTimeout ==
    /\ npc = "pinging"
    /\ pingClock = DatabasePingTimeout
    /\ pingErr' = "deadline exceeded"
    /\ nret' = PingReturn(pingErr')
    /\ npc' = "returned"
    /\ UNCHANGED <<nin, ntracer, pool, pingClock>>

\* Database.Close, called by the owner of the returned Database.
Close ==
    /\ npc = "returned"
    /\ nret.db = "database"
    /\ pool = "open"
    /\ pool' = "closed"
    /\ UNCHANGED <<nin, npc, ntracer, pingClock, pingErr, nret>>

\* ------------------------------------------------------------------------
\* Migrate
\* ------------------------------------------------------------------------

NoError == [kind |-> "none", version |-> 0]

NilError == [kind |-> "nil", version |-> 0]

Failure(k) == [kind |-> k, version |-> 0]

NoPrev == [ok |-> FALSE, version |-> 0]

MigrateIdle ==
    /\ mpc = "idle" /\ mfrom = 0 /\ mcur = 0 /\ applied = <<>> /\ failed = 0
    /\ mres = NoError /\ mreport = "none" /\ calls = 0
    /\ startVersion = 0 /\ prev = NoPrev

\* Migrate returns e; the deferred conn.Close runs.
MigrateReturns(e) ==
    /\ mres' = e
    /\ mpc' = "done"

\* The caller invokes Migrate (again, after an earlier call has returned).
MigrateCall ==
    /\ mpc \in {"idle", "done"}
    /\ calls < MaxCalls
    /\ calls' = calls + 1
    /\ prev' = IF mpc = "done"
               THEN [ok |-> mres.kind = "nil", version |-> schemaVersion]
               ELSE NoPrev
    /\ startVersion' = schemaVersion
    /\ mpc' = "connect"
    /\ mfrom' = 0
    /\ mcur' = 0
    /\ applied' = <<>>
    /\ failed' = 0
    /\ mres' = NoError
    /\ mreport' = "none"
    /\ UNCHANGED <<nScripts, tableExists, schemaVersion>>

\* pgx.Connect(ctx, dsn)
Connect ==
    /\ mpc = "connect"
    /\ \/ MigrateReturns(Failure("connect")) 
       \/ mpc' = "newMigrator" /\ UNCHANGED mres
    /\ UNCHANGED <<nScripts, tableExists, schemaVersion, mfrom, mcur, applied,
                   failed, mreport, calls, startVersion, prev>>

\* tern.NewMigrator(ctx, conn, "schema_version"): creates the version table,
\* holding 0, when it does not exist.
NewMigrator ==
    /\ mpc = "newMigrator"
    /\ \/ /\ MigrateReturns(Failure("constructing database migrator"))
          /\ UNCHANGED <<tableExists, schemaVersion>>
       \/ /\ mpc' = "load"
          /\ tableExists' = TRUE
          /\ schemaVersion' = IF tableExists THEN schemaVersion ELSE 0
          /\ UNCHANGED mres
    /\ UNCHANGED <<nScripts, mfrom, mcur, applied, failed, mreport, calls,
                   startVersion, prev>>

\* fs.Sub and m.LoadMigrations(subtree)
LoadMigrations ==
    /\ mpc = "load"
    /\ \/ MigrateReturns(Failure("loading database migrations"))
       \/ mpc' = "getVersion" /\ UNCHANGED mres
    /\ UNCHANGED <<nScripts, tableExists, schemaVersion, mfrom, mcur, applied,
                   failed, mreport, calls, startVersion, prev>>

\* from, err := m.GetCurrentVersion(ctx)
GetCurrentVersion ==
    /\ mpc = "getVersion"
    /\ \/ /\ MigrateReturns(Failure("retreiving current database migration version"))
          /\ UNCHANGED mfrom
       \/ /\ mfrom' = schemaVersion
          /\ mpc' = "migrate"
          /\ UNCHANGED mres
    /\ UNCHANGED <<nScripts, tableExists, schemaVersion, mcur, applied,
                   failed, mreport, calls, startVersion, prev>>

\* m.Migrate(ctx) migrates to the last script of the catalogue.
TargetVersion == nScripts

\* The migrator refuses a current version outside 0..len(m.Migrations).
BadVersion(v) == v < 0 \/ nScripts < v

\* Mutant: the migrator's error is not looked at.
MigrateFailedNever(e) == FALSE

\* if err := m.Migrate(ctx); err != nil { return err }
MigrateFailed(e) == e.kind # "nil"

\* Mutant: the migrator's error is replaced by a fixed message, as the
\* error of GetCurrentVersion is.
MigrateErrOpaque(e) == [kind |-> "migrating database", version |-> 0]

\* The error Migrate returns for the migrator's error e.
MigrateErr(e) == e

\* What m.Migrate(ctx) leaves behind when it returns e.
AfterMigrate(e) ==
    IF MigrateFailed(e)
    THEN MigrateReturns(MigrateErr(e))
    ELSE mpc' = "report" /\ UNCHANGED mres

\* m.Migrate(ctx) begins: it reads the current version and checks it.
MigrateBegin ==
    /\ mpc = "migrate"
    /\ mcur' = schemaVersion
    /\ IF BadVersion(schemaVersion)
       THEN AfterMigrate([kind |-> "BadVersionError", version |-> schemaVersion])
       ELSE mpc' = "migrating" /\ UNCHANGED mres
    /\ UNCHANGED <<nScripts, tableExists, schemaVersion, mfrom, applied,
                   failed, mreport, calls, startVersion, prev>>

\* The script the migrator runs at current version v.
ScriptAt(v) == v + 1

\* Mutant: the script is committed without the version update.
VersionNotAdvanced(v, s) == v

\* The version the table holds once script s is committed: the script and
\* the version update share one transaction.
VersionAfterCommit(v, s) == s

\* The version the table holds after script s failed at version v: the
\* transaction is rolled back.
VersionAfterFailure(v, s) == v

\* m.Migrate(ctx) runs the next script in a transaction: it commits the
\* script with the version update, or the script fails and is rolled back.
MigrateScript ==
    /\ mpc = "migrating"
    /\ mcur # TargetVersion
    /\ LET s == ScriptAt(mcur) IN
       \/ /\ schemaVersion' = VersionAfterCommit(mcur, s)
          /\ applied' = Append(applied, s)
          /\ mcur' = mcur + 1
          /\ UNCHANGED <<mpc, mres, failed>>
       \/ /\ schemaVersion' = VersionAfterFailure(mcur, s)
          /\ failed' = s
          /\ AfterMigrate([kind |-> "MigrationPgError", version |-> s])
          /\ UNCHANGED <<applied, mcur>>
    /\ UNCHANGED <<nScripts, tableExists, mfrom, mreport, calls,
                   startVersion, prev>>

\* m.Migrate(ctx) has reached the target and returns nil.
MigrateEnd ==
    /\ mpc = "migrating"
    /\ mcur = TargetVersion
    /\ AfterMigrate(NilError)
    /\ UNCHANGED <<nScripts, tableExists, schemaVersion, mfrom, mcur, applied,
                   failed, mreport, calls, startVersion, prev>>

\* Mutant: from is compared with 0.
UpToDateAtZero(from) == from = 0

\* if from == int32(len(m.Migrations))
UpToDate(from) == from = nScripts

\* The log message, and return nil.
Report ==
    /\ mpc = "report"
    /\ mreport' = IF UpToDate(mfrom) THEN "up to date" ELSE "migrated"
    /\ MigrateReturns(NilError)
    /\ UNCHANGED <<nScripts, tableExists, schemaVersion, mfrom, mcur, applied,
                   failed, calls, startVersion, prev>>

\* ------------------------------------------------------------------------
\* Specifications
\* ------------------------------------------------------------------------

\* The other components at rest.
NoDatabase ==
    /\ nScripts = 1 /\ tableExists = FALSE /\ schemaVersion = 0
    /\ MigrateIdle

NoConfig ==
    /\ desc = [user |-> <<"u">>, password |-> <<"p">>, host |-> <<"h">>,
               port |-> 5432, name |-> <<"d", "b">>,
               sslmode |-> <<"d", "i", "s", "a", "b", "l", "e">>]
    /\ DsnIdle

InitTracer ==
    /\ tracers \in ObserverLists
    /\ TracerIdle
    /\ nin = [svc |-> "nil", env |-> "production"]
    /\ NewIdle
    /\ NoDatabase
    /\ NoConfig

NextTracer ==
    \/ BeginQuery /\ UNCHANGED <<nvars, mvars, dvars>>
    \/ TraceQueryStartIter /\ UNCHANGED <<nvars, mvars, dvars>>
    \/ TraceQueryStartReturn /\ UNCHANGED <<nvars, mvars, dvars>>
    \/ QueryExec /\ UNCHANGED <<nvars, mvars, dvars>>
    \/ TraceQueryEndIter /\ UNCHANGED <<nvars, mvars, dvars>>
    \/ TraceQueryEndReturn /\ UNCHANGED <<nvars, mvars, dvars>>
    \/ NextQuery /\ UNCHANGED <<nvars, mvars, dvars>>

SpecTracer == InitTracer /\ [][NextTracer]_vars

InitNew ==
    /\ nin \in NewInputs
    /\ NewIdle
    /\ tracers = <<>>
    /\ TracerIdle
    /\ NoDatabase
    /\ NoConfig

NextNew ==
    \/ ParseConfig /\ UNCHANGED <<tvars, mvars, dvars>>
    \/ WireTracer /\ UNCHANGED <<tvars, mvars, dvars>>
    \/ NewWithConfig /\ UNCHANGED <<tvars, mvars, dvars>>
    \/ PingWait /\ UNCHANGED <<tvars, mvars, dvars>>
    \/ PingAnswer /\ UNCHANGED <<tvars, mvars, dvars>>
    \/ PingTimeout /\ UNCHANGED <<tvars, mvars, dvars>>
    \/ Close /\ UNCHANGED <<tvars, mvars, dvars>>

SpecNew == InitNew /\ [][NextNew]_vars

\* The catalogue is embedded at build time and holds at least one script;
\* the database is fresh (no version table) or holds any version, one
\* beyond the catalogue included.
InitMigrate ==
    /\ nScripts \in 1..MaxScripts
    /\ tableExists \in BOOLEAN
    /\ schemaVersion \in 0..(MaxScripts + 1)
    /\ (~tableExists => schemaVersion = 0)
    /\ MigrateIdle
    /\ tracers = <<>>
    /\ TracerIdle
    /\ nin = [svc |-> "nil", env |-> "production"]
    /\ NewIdle
    /\ NoConfig

NextMigrate ==
    \/ MigrateCall /\ UNCHANGED <<tvars, nvars, dvars>>
    \/ Connect /\ UNCHANGED <<tvars, nvars, dvars>>
    \/ NewMigrator /\ UNCHANGED <<tvars, nvars, dvars>>
    \/ LoadMigrations /\ UNCHANGED <<tvars, nvars, dvars>>
    \/ GetCurrentVersion /\ UNCHANGED <<tvars, nvars, dvars>>
    \/ MigrateBegin /\ UNCHANGED <<tvars, nvars, dvars>>
    \/ MigrateScript /\ UNCHANGED <<tvars, nvars, dvars>>
    \/ MigrateEnd /\ UNCHANGED <<tvars, nvars, dvars>>
    \/ Report /\ UNCHANGED <<tvars, nvars, dvars>>

SpecMigrate == InitMigrate /\ [][NextMigrate]_vars

\* The characters a password is drawn from: a letter and the punctuation
\* that delimits the parts of a URL.
PasswordChars == {"a", "@", ":", "/", "?", "#", " ", "%"}

Passwords == UNION {[1..n -> PasswordChars] : n \in 1..MaxPasswordLen}

\* Valid connection descriptors: every required field is set, the host is a
\* name or an IPv6 address, the port a TCP port.
Descriptors ==
    [user     : {<<"u">>, <<"a", "b">>},
     password : Passwords,
     host     : {<<"h">>, <<"d", "b">>, <<":", ":", "1">>},
     port     : {80, 5432},
     name     : {<<"d", "b">>, <<"a", "p", "p">>, DbnameLiteral},
     sslmode  : {<<"d", "i", "s", "a", "b", "l", "e">>,
                 <<"r", "e", "q", "u", "i", "r", "e">>}]

InitDsn ==
    /\ desc \in Descriptors
    /\ DsnIdle
    /\ tracers = <<>>
    /\ TracerIdle
    /\ nin = [svc |-> "nil", env |-> "production"]
    /\ NewIdle
    /\ NoDatabase

NextDsn ==
    \/ NewBuildDsn /\ UNCHANGED <<tvars, nvars, mvars>>
    \/ MigrateBuildDsn /\ UNCHANGED <<tvars, nvars, mvars>>
    \/ ParseDsn /\ UNCHANGED <<tvars, nvars, mvars>>

SpecDsn == InitDsn /\ [][NextDsn]_vars

\* ------------------------------------------------------------------------
\* Claims
\* ------------------------------------------------------------------------

\* The scripts k+1 .. n, in ascending order.
Outstanding(k, n) == [i \in 1..(n - k) |-> k + i]

\* The errors of Migrate that come from the connection and the catalogue,
\* before the migrator runs.
SetupFailures ==
    {"connect", "constructing database migrator", "loading database migrations",
     "retreiving current database migration version"}

\* C1: a Migrate that succeeds from version k <= N has applied exactly the
\* scripts k+1..N, each once, in ascending order, and the version table
\* holds N.
C1_MigrateAppliesOutstanding ==
    (mpc = "done" /\ mres.kind = "nil" /\ startVersion <= nScripts)
        => /\ applied = Outstanding(startVersion, nScripts)
           /\ schemaVersion = nScripts

C1_Witness ==
    /\ mpc = "done" /\ mres.kind = "nil"
    /\ startVersion = 1 /\ nScripts = 3 /\ applied = <<2, 3>>

\* C2: in a call of Migrate that follows a successful one, no script is
\* applied, the version record stays what the first call left, the
\* "migrated" branch is never taken, and a call that reaches the report
\* takes the "up to date" branch with from equal to the catalogue's size.
C2_SecondMigrateIsNoOp ==
    prev.ok
        => /\ applied = <<>>
           /\ failed = 0
           /\ schemaVersion = prev.version
           /\ mreport # "migrated"
           /\ mres.kind \in {"none", "nil"} \cup SetupFailures
           /\ (mpc = "done" /\ mres.kind = "nil")
                 => (mreport = "up to date" /\ mfrom = nScripts)

C2_Witness ==
    /\ prev.ok /\ mpc = "done" /\ mres.kind = "nil" /\ mreport = "up to date"
    /\ nScripts >= 2

C4_VersionSkewFails ==
    (startVersion > nScripts /\ calls > 0)
        => /\ applied = <<>>
           /\ schemaVersion = startVersion
           /\ mreport = "none"
           /\ mpc = "done"
                 => /\ mres.kind \in {"BadVersionError"} \cup SetupFailures
                    /\ (mfrom = startVersion => mres.kind = "BadVersionError")

C4_Witness ==
    /\ mpc = "done" /\ startVersion > nScripts
    /\ mres = [kind |-> "BadVersionError", version |-> startVersion]

\* The observers of the list that have the capability, in registration order.
Positions == [i \in 1..Len(tracers) |-> i]

StartCapable == SelectSeq(Positions, LAMBDA i : tracers[i].start)

EndCapable == SelectSeq(Positions, LAMBDA i : tracers[i].end)

Invoked(log) == [j \in 1..Len(log) |-> log[j].obs]

StartOver == tpc \in {"startPanicked", "query", "end", "endPanicked", "done"}

EndOver == tpc \in {"endPanicked", "done"}

\* C5: once TraceQueryStart is over it has invoked exactly the start-capable
\* observers, each once, in registration order, and once TraceQueryEnd is
\* over it has invoked exactly the end-capable ones likewise.
C5_ExactDispatch ==
    /\ StartOver => Invoked(startCalls) = StartCapable
    /\ EndOver => Invoked(endCalls) = EndCapable

\* C6: no observer's panic leaves TraceQueryStart or TraceQueryEnd.
C6_ObserverFailureIsolated ==
    tpc \notin {"startPanicked", "endPanicked"}

\* C7: a ping that does not succeed makes New return nil and the ping
\* error, the deadline is the 10 seconds of DatabasePingTimeout, and a
\* Database is returned only after a ping that succeeded.
C7_FailedPingReturnsNoDatabase ==
    /\ (npc = "returned" /\ pingErr \notin {"none", "nil"})
          => nret = [db |-> "nil", err |-> "failed to ping database"]
    /\ pingErr = "deadline exceeded" => pingClock = 10
    /\ nret.db = "database" => (pingErr = "nil" /\ nret.err = "nil")

C7_Witness ==
    /\ npc = "returned" /\ pingErr = "deadline exceeded" /\ pool = "open"

\* C9: the first start-capable observer is handed the caller's context, each
\* later one the context the one before it returned, and TraceQueryStart
\* returns what the last one returned (the caller's context when there is none).
C9_ContextThreaded ==
    /\ \A j \in 1..Len(startCalls) :
          startCalls[j].got = IF j = 1 THEN CallerCtx ELSE startCalls[j - 1].ret
    /\ tpc \in {"query", "end", "endPanicked", "done"}
          => tret = IF startCalls = <<>> THEN CallerCtx
                    ELSE startCalls[Len(startCalls)].ret

C9_Witness ==
    /\ tpc = "query" /\ Len(startCalls) = 2
    /\ startCalls[1].ret # CallerCtx
    /\ startCalls[2].got = startCalls[1].ret
    /\ tret = startCalls[2].ret /\ tret # startCalls[1].ret

\* The password part of the string holds no character but unreserved ones,
\* "+" and "%XX" escapes.
PasswordEscaped(raw) ==
    /\ \A i \in 1..Len(raw) : raw[i] \in Unreserved \cup HexSet \cup {"%", "+"}
    /\ EscapesValid(raw)

\* C8: parsing the connection string that New or Migrate built gives back
\* the descriptor's user, host, port, database name and SSL mode, and the
\* password is in the string in escaped form only.
C8_DsnRoundTrip ==
    dpc = "parsed"
        => /\ parsed.err = "nil"
           /\ parsed.user = desc.user
           /\ parsed.host = desc.host
           /\ parsed.port = desc.port
           /\ parsed.database = desc.name
           /\ parsed.sslmode = desc.sslmode
           /\ PasswordEscaped(parsed.rawPassword)

\* C10: when New has returned, the pool it opened is in the returned
\* Database or closed.
C10_NoUnownedOpenPool ==
    (npc = "returned" /\ nret.db = "nil") => pool # "open"

====
